---- MODULE Spec2Model ----
(***************************************************************************)
(* Model of cgatcore/database.py: the tsv virtual table (_getfiledata,     *)
(* _VirtualTable, _Table, _Cursor) and the lock-wait wrapper executewait.  *)
(*                                                                         *)
(* A text line is a sequence of one-character strings, a file a sequence   *)
(* of lines (each handed to the loader with its terminating newline), and  *)
(* the argument of Create a sequence of files.                             *)
(***************************************************************************)
EXTENDS Integers, Sequences, FiniteSets, TLC

\* ------------------------------------------------------------------ bounds
MaxTotalLines == 3
MaxFiles == 2
MaxScanLines == 2
MaxNext == 3
MaxCol == 2
MaxAttempts == 4
MaxRetries == 2

\* -------------------------------------------------------------- characters
TAB == "\t"
COMMA == ","
SP == " "
NL == "\n"

\* str.isspace for the characters of the model (str.strip, str.split)
IsSpace(ch) == ch \in {SP, TAB, NL}

\* ------------------------------------------------------------- str methods
\* str.replace(old, new) for one-character old and new
Replace(s, old, new) == [i \in 1..Len(s) |-> IF s[i] = old THEN new ELSE s[i]]

RECURSIVE LStrip(_)
LStrip(s) == IF s # <<>> /\ IsSpace(Head(s)) THEN LStrip(Tail(s)) ELSE s

RECURSIVE RStrip(_)
RStrip(s) ==
    IF s # <<>> /\ IsSpace(s[Len(s)]) THEN RStrip(SubSeq(s, 1, Len(s) - 1)) ELSE s

\* str.strip()
Strip(s) == RStrip(LStrip(s))

\* str.split(sep): every occurrence of sep ends a token; "" gives [""]
RECURSIVE SplitSep(_, _, _)
SplitSep(s, sep, cur) ==
    IF s = <<>> THEN <<cur>>
    ELSE IF Head(s) = sep THEN <<cur>> \o SplitSep(Tail(s), sep, <<>>)
    ELSE SplitSep(Tail(s), sep, Append(cur, Head(s)))

Split(s, sep) == SplitSep(s, sep, <<>>)

\* str.split(): runs of whitespace separate tokens, no empty token
RECURSIVE SplitWsFrom(_, _)
SplitWsFrom(s, cur) ==
    IF s = <<>> THEN (IF cur = <<>> THEN <<>> ELSE <<cur>>)
    ELSE IF IsSpace(Head(s))
         THEN (IF cur = <<>> THEN <<>> ELSE <<cur>>) \o SplitWsFrom(Tail(s), <<>>)
    ELSE SplitWsFrom(Tail(s), Append(cur, Head(s)))

SplitWs(s) == SplitWsFrom(s, <<>>)

\* sep.join(parts)
RECURSIVE Join(_, _)
Join(sep, parts) ==
    IF parts = <<>> THEN <<>>
    ELSE IF Len(parts) = 1 THEN parts[1]
    ELSE parts[1] \o sep \o Join(sep, Tail(parts))

\* "'%s'" % x
Quote(x) == <<"'">> \o x \o <<"'">>

\* seq[i] of Python: i in -len..len-1, anything else is an IndexError
PyInRange(seq, i) == -Len(seq) <= i /\ i < Len(seq)
PyIndex(seq, i) == IF i >= 0 THEN seq[i + 1] ELSE seq[Len(seq) + i + 1]

\* ------------------------------------------------------------------ loader
\* for line in infile: the lines of one file, each with its newline
FileLines(f) == [i \in 1..Len(f) |-> Append(f[i], NL)]

\* the lines of all files of path, in the order the nested loops read them
RECURSIVE AllLines(_)
AllLines(path) ==
    IF path = <<>> THEN <<>> ELSE FileLines(Head(path)) \o AllLines(Tail(path))

\* line.replace("\t", ",").strip().split(',')
SplitLine(line) == Split(Strip(Replace(line, TAB, COMMA)), COMMA)

\* _getfiledata: columns is the first line read, <<line>>, or <<>> for the None
\* it stays when no line is read; data gets one entry for every line read
GetFileColumns(path) == IF AllLines(path) = <<>> THEN <<>> ELSE <<AllLines(path)[1]>>

GetFileData(path) == [i \in 1..Len(AllLines(path)) |-> SplitLine(AllLines(path)[i])]

\* ['%s' % (x, ) for x in columns.split()]
HeaderColumns(columns) == SplitWs(columns)

\* "create table foo(" + ','.join(["'%s'" % x for x in columns]) + ")"
SchemaPrefix ==
    <<"c","r","e","a","t","e"," ","t","a","b","l","e"," ","f","o","o","(">>

SchemaString(columns) ==
    SchemaPrefix \o Join(<<COMMA>>, [i \in 1..Len(columns) |-> Quote(columns[i])])
        \o <<")">>

\* ------------------------------------------------------------------ inputs
Lines ==
    { <<"h", TAB, "k">>,
      <<"1", TAB, "x">>,
      <<"2", COMMA, "y", TAB, "z">>,
      <<>> }

RECURSIVE SeqsUpTo(_, _)
SeqsUpTo(S, n) ==
    IF n = 0 THEN {<<>>}
    ELSE SeqsUpTo(S, n - 1)
         \cup {Append(s, x) : s \in {t \in SeqsUpTo(S, n - 1) : Len(t) = n - 1}, x \in S}

\* the ways to cut the line sequence s into n consecutive files
CutsOf(s, n) ==
    { c \in [0..n -> 0..Len(s)] :
        /\ c[0] = 0
        /\ c[n] = Len(s)
        /\ \A i \in 1..n : c[i - 1] <= c[i] }

\* every list of 1..maxFiles files that holds at most maxLines lines in all
PathsOf(maxLines, maxFiles) ==
    UNION { { [i \in 1..n |-> SubSeq(s, c[i - 1] + 1, c[i])] : c \in CutsOf(s, n) } :
            s \in SeqsUpTo(Lines, maxLines), n \in 1..maxFiles }

\* ------------------------------------------------------------------- state
VARIABLES
    paths,      \* the file arguments handed to Create
    vt,         \* "init", "created" (Create returned) or "failed" (Create raised)
    schema,     \* the schema string Create returned
    columns,    \* _Table.columns
    data,       \* _Table.data
    opened,     \* the _Cursor objects Open has returned
    pos,        \* _Cursor.pos: <<>> while the attribute is not set, else <<n>>
    filtered,   \* history: the cursors Filter was called on
    nexts,      \* history: Next calls on a cursor since its last Filter
    closed,     \* history: the cursors Close was called on
    last,       \* the last call: operation, cursor, argument and what it returned
    ew_pc,      \* executewait: "idle" (not called), "loop", "returned" or "raised"
    retries0,   \* executewait: the retries argument
    retries,    \* executewait: the local retries
    regex_error,\* executewait: the regex_error argument
    attempts,   \* history: dbhandle.execute calls made
    waits,      \* history: time.sleep calls made
    msgs,       \* history: the error message of every failed attempt, in order
    cc,         \* executewait: the cursor returned (number of the attempt that made it)
    exc,        \* executewait: <<message>> of the exception it raised, else <<>>
    cn_pc,      \* connect: "idle" (not called), "call", "returned" or "raised"
    cn_dbhandle,\* connect: the dbhandle argument
    cn_attach,  \* connect: the attach argument
    cn_url,     \* connect: the url argument, <<>> for None, else <<string>>
    cn_result,  \* connect: the object returned
    cn_executed \* connect: the statements executed on the cursor, in order

vtvars == <<paths, vt, schema, columns, data, opened, pos, filtered, nexts, closed, last>>
ewvars == <<ew_pc, retries0, retries, regex_error, attempts, waits, msgs, cc, exc>>
cnvars == <<cn_pc, cn_dbhandle, cn_attach, cn_url, cn_result, cn_executed>>
vars == <<vtvars, ewvars, cnvars>>

Cursors == {"c1", "c2"}
NoCursor == "-"

\* what a call returned: err is "none" or the exception raised
Ret(op, cur, arg, err, bval, sval) ==
    [op |-> op, cur |-> cur, arg |-> arg, err |-> err, bval |-> bval, sval |-> sval]

Ok(op, cur, arg) == Ret(op, cur, arg, "none", FALSE, <<>>)
Raise(op, cur, arg, err) == Ret(op, cur, arg, err, FALSE, <<>>)

\* ------------------------------------------------------- _VirtualTable.Create
Create ==
    /\ vt = "init"
    /\ IF GetFileColumns(paths) = <<>>
       THEN \* columns.split() on None
            /\ vt' = "failed"
            /\ last' = Raise("Create", NoCursor, 0, "AttributeError")
            /\ UNCHANGED <<schema, columns, data>>
       ELSE /\ vt' = "created"
            /\ columns' = HeaderColumns(GetFileColumns(paths)[1])
            /\ data' = GetFileData(paths)
            /\ schema' = SchemaString(columns')
            /\ last' = Ok("Create", NoCursor, 0)
    /\ UNCHANGED <<paths, opened, pos, filtered, nexts, closed, ewvars, cnvars>>

\* -------------------------------------------------------------------- _Table
BestIndex ==
    /\ vt = "created"
    /\ last' = Ok("BestIndex", NoCursor, 0)
    /\ UNCHANGED <<paths, vt, schema, columns, data, opened, pos, filtered, nexts,
                   closed, ewvars, cnvars>>

Open(c) ==
    /\ vt = "created"
    /\ c \notin opened
    /\ opened' = opened \cup {c}
    /\ last' = Ok("Open", c, 0)
    /\ UNCHANGED <<paths, vt, schema, columns, data, pos, filtered, nexts, closed,
                   ewvars, cnvars>>

\* a Disconnect that releases the row store
DisconnectFrees(name) ==
    /\ vt = "created"
    /\ data' = <<>>
    /\ last' = Ok(name, NoCursor, 0)
    /\ UNCHANGED <<paths, vt, schema, columns, opened, pos, filtered, nexts, closed,
                   ewvars, cnvars>>

\* Destroy = Disconnect
Disconnect(name) ==
    /\ vt = "created"
    /\ last' = Ok(name, NoCursor, 0)
    /\ UNCHANGED <<paths, vt, schema, columns, data, opened, pos, filtered, nexts,
                   closed, ewvars, cnvars>>

\* ------------------------------------------------------------------- _Cursor
FilterArgs == {0, 1}
ColArgs == -1..MaxCol

\* self.pos = 0
FilterPos == 0

\* a slip in the comparison of Eof
EofValueStrict(p, rows) == p > Len(rows)

\* self.pos >= len(self.table.data)
EofValue(p, rows) == p >= Len(rows)

\* self.pos += 1
NextPos(p) == p + 1

\* a Filter that sets the position only when the cursor has none yet
FilterOnce(c, a) ==
    /\ c \in opened
    /\ pos' = [pos EXCEPT ![c] = IF pos[c] = <<>> THEN <<FilterPos>> ELSE pos[c]]
    /\ filtered' = filtered \cup {c}
    /\ nexts' = [nexts EXCEPT ![c] = 0]
    /\ last' = Ok("Filter", c, a)
    /\ UNCHANGED <<paths, vt, schema, columns, data, opened, closed, ewvars, cnvars>>

Filter(c, a) ==
    /\ c \in opened
    /\ pos' = [pos EXCEPT ![c] = <<FilterPos>>]
    /\ filtered' = filtered \cup {c}
    /\ nexts' = [nexts EXCEPT ![c] = 0]
    /\ last' = Ok("Filter", c, a)
    /\ UNCHANGED <<paths, vt, schema, columns, data, opened, closed, ewvars, cnvars>>

Eof(c) ==
    /\ c \in opened
    /\ last' = IF pos[c] = <<>>
               THEN Raise("Eof", c, 0, "AttributeError")
               ELSE Ret("Eof", c, 0, "none", EofValue(pos[c][1], data), <<>>)
    /\ UNCHANGED <<paths, vt, schema, columns, data, opened, pos, filtered, nexts,
                   closed, ewvars, cnvars>>

\* a Rowid that answers an empty identifier past the last row
RowidSilent(c) ==
    /\ c \in opened
    /\ last' = IF pos[c] = <<>>
               THEN Raise("Rowid", c, 0, "AttributeError")
               ELSE IF ~PyInRange(data, pos[c][1])
               THEN Ok("Rowid", c, 0)
               ELSE Ret("Rowid", c, 0, "none", FALSE,
                        PyIndex(PyIndex(data, pos[c][1]), 0))
    /\ UNCHANGED <<paths, vt, schema, columns, data, opened, pos, filtered, nexts,
                   closed, ewvars, cnvars>>

Rowid(c) ==
    /\ c \in opened
    /\ last' = IF pos[c] = <<>>
               THEN Raise("Rowid", c, 0, "AttributeError")
               ELSE IF ~PyInRange(data, pos[c][1])
               THEN Raise("Rowid", c, 0, "IndexError")
               ELSE IF ~PyInRange(PyIndex(data, pos[c][1]), 0)
               THEN Raise("Rowid", c, 0, "IndexError")
               ELSE Ret("Rowid", c, 0, "none", FALSE,
                        PyIndex(PyIndex(data, pos[c][1]), 0))
    /\ UNCHANGED <<paths, vt, schema, columns, data, opened, pos, filtered, nexts,
                   closed, ewvars, cnvars>>

Column(c, col) ==
    /\ c \in opened
    /\ last' = IF pos[c] = <<>>
               THEN Raise("Column", c, col, "AttributeError")
               ELSE IF ~PyInRange(data, pos[c][1])
               THEN Raise("Column", c, col, "IndexError")
               ELSE IF ~PyInRange(PyIndex(data, pos[c][1]), col)
               THEN Raise("Column", c, col, "IndexError")
               ELSE Ret("Column", c, col, "none", FALSE,
                        PyIndex(PyIndex(data, pos[c][1]), col))
    /\ UNCHANGED <<paths, vt, schema, columns, data, opened, pos, filtered, nexts,
                   closed, ewvars, cnvars>>

\* the position kept on the table instead of on the cursor: Next moves every
\* cursor that has a position
NextShared(c) ==
    /\ c \in opened
    /\ nexts[c] < MaxNext
    /\ IF pos[c] = <<>>
       THEN /\ last' = Raise("Next", c, 0, "AttributeError")
            /\ UNCHANGED <<pos, nexts>>
       ELSE /\ pos' = [d \in Cursors |->
                        IF pos[d] = <<>> THEN <<>> ELSE <<NextPos(pos[d][1])>>]
            /\ nexts' = [nexts EXCEPT ![c] = @ + 1]
            /\ last' = Ok("Next", c, 0)
    /\ UNCHANGED <<paths, vt, schema, columns, data, opened, filtered, closed, ewvars, cnvars>>

\* a Next that starts over at the first row once it is past the last one
NextWraps(c) ==
    /\ c \in opened
    /\ nexts[c] < MaxNext
    /\ IF pos[c] = <<>>
       THEN /\ last' = Raise("Next", c, 0, "AttributeError")
            /\ UNCHANGED <<pos, nexts>>
       ELSE /\ pos' = [pos EXCEPT ![c] =
                        IF pos[c][1] >= Len(data) THEN <<0>> ELSE <<NextPos(pos[c][1])>>]
            /\ nexts' = [nexts EXCEPT ![c] = @ + 1]
            /\ last' = Ok("Next", c, 0)
    /\ UNCHANGED <<paths, vt, schema, columns, data, opened, filtered, closed, ewvars,
                   cnvars>>

Next(c) ==
    /\ c \in opened
    /\ nexts[c] < MaxNext
    /\ IF pos[c] = <<>>
       THEN /\ last' = Raise("Next", c, 0, "AttributeError")
            /\ UNCHANGED <<pos, nexts>>
       ELSE /\ pos' = [pos EXCEPT ![c] = <<NextPos(pos[c][1])>>]
            /\ nexts' = [nexts EXCEPT ![c] = @ + 1]
            /\ last' = Ok("Next", c, 0)
    /\ UNCHANGED <<paths, vt, schema, columns, data, opened, filtered, closed, ewvars, cnvars>>

\* a Close that drops the position of the cursor
CloseResets(c) ==
    /\ c \in opened
    /\ closed' = closed \cup {c}
    /\ pos' = [pos EXCEPT ![c] = <<>>]
    /\ last' = Ok("Close", c, 0)
    /\ UNCHANGED <<paths, vt, schema, columns, data, opened, filtered, nexts, ewvars,
                   cnvars>>

Close(c) ==
    /\ c \in opened
    /\ closed' = closed \cup {c}
    /\ last' = Ok("Close", c, 0)
    /\ UNCHANGED <<paths, vt, schema, columns, data, opened, pos, filtered, nexts,
                   ewvars, cnvars>>

\* --------------------------------------------------------------- executewait
LockedPattern == <<"l","o","c","k","e","d">>
BusyPattern == <<"b","u","s","y">>
Patterns == {LockedPattern, BusyPattern}

\* str(msg) of the exceptions dbhandle.execute raises
Messages ==
    { <<"d","b"," ","l","o","c","k","e","d">>,
      <<"d","b"," ","b","u","s","y">>,
      <<"b","u","s","y",","," ","l","o","c","k","e","d">>,
      <<"n","o"," ","t","a","b","l","e">> }

RetryArgs == {-2, -1} \cup 0..MaxRetries

\* re.search(pattern, text) for a pattern of literal characters
Search(pattern, text) ==
    \E i \in 1..(Len(text) + 1) :
        /\ i + Len(pattern) - 1 <= Len(text)
        /\ SubSeq(text, i, i + Len(pattern) - 1) = pattern

\* a test that also gives up on a negative count
GiveUpNonPositive(r) == r <= 0

\* if retries == 0: raise
GiveUp(r) == r = 0

\* if not re.search("locked", str(msg)): raise
Retryable(regex, msg) == Search(LockedPattern, msg)

\* a loop without the break: the cursor is kept and the statement is run again
ExecuteOkNoBreak ==
    /\ ew_pc = "loop"
    /\ attempts < MaxAttempts
    /\ attempts' = attempts + 1
    /\ cc' = attempts + 1
    /\ UNCHANGED <<vtvars, cnvars, ew_pc, retries0, retries, regex_error, waits, msgs, exc>>

\* cc = dbhandle.execute(statement) returns: break, return cc
ExecuteOk ==
    /\ ew_pc = "loop"
    /\ attempts < MaxAttempts
    /\ attempts' = attempts + 1
    /\ cc' = attempts + 1
    /\ ew_pc' = "returned"
    /\ UNCHANGED <<vtvars, cnvars, retries0, retries, regex_error, waits, msgs, exc>>

\* dbhandle.execute(statement) raises an exception with message m
ExecuteFail(m) ==
    /\ ew_pc = "loop"
    /\ attempts < MaxAttempts
    /\ attempts' = attempts + 1
    /\ msgs' = Append(msgs, m)
    /\ IF GiveUp(retries) \/ ~Retryable(regex_error, m)
       THEN /\ ew_pc' = "raised"
            /\ exc' = <<m>>
            /\ UNCHANGED <<retries, waits>>
       ELSE \* time.sleep(wait); retries -= 1; continue
            /\ waits' = waits + 1
            /\ retries' = retries - 1
            /\ UNCHANGED <<ew_pc, exc>>
    /\ UNCHANGED <<vtvars, cnvars, retries0, regex_error, cc>>

\* ------------------------------------------------------------------- connect
MaxAttach == 2

\* a database object: a DB-API connection, a path string, None or an engine
Obj(kind, id, args) == [kind |-> kind, id |-> id, args |-> args]
NoObj == Obj("none", <<>>, {})

Handles ==
    { Obj("conn", <<"d","b","1">>, {}),
      Obj("conn", <<"d","b","2">>, {}),
      Obj("str", <<"f",".","d","b">>, {}),
      NoObj }

SqlitePrefix == <<"s","q","l","i","t","e">>

Urls ==
    { <<>>,
      << <<>> >>,
      << <<"s","q","l","i","t","e",":","/","/","/","x">> >>,
      << <<"p","g",":","/","/","h","/","x">> >> }

Statements == {"attach a", "attach b"}

\* the attach argument: None, a string, a list or tuple of strings, or anything else
AttachArgs ==
    { [kind |-> "none", items |-> <<>>], [kind |-> "other", items |-> <<>>] }
    \cup { [kind |-> "str", items |-> <<st>>] : st \in Statements }
    \cup { [kind |-> k, items |-> it] : k \in {"list", "tuple"},
                                        it \in SeqsUpTo(Statements, MaxAttach) }

\* str.startswith
StartsWith(s, prefix) ==
    Len(prefix) <= Len(s) /\ SubSeq(s, 1, Len(prefix)) = prefix

\* if url: (neither None nor the empty string)
UrlGiven(url) == url # <<>> /\ url[1] # <<>>

\* sqlalchemy.create_engine(url, connect_args=connect_args)
CreateEngine(url) ==
    Obj("engine", url, IF StartsWith(url, SqlitePrefix) THEN {"check_same_thread"} ELSE {})

\* the statements the attach branch hands to cc.execute, through db_execute
AttachStatements(attach) ==
    IF attach.kind \in {"str", "list", "tuple"} THEN attach.items ELSE <<>>

Connect ==
    /\ cn_pc = "call"
    /\ IF UrlGiven(cn_url)
       THEN /\ cn_result' = CreateEngine(cn_url[1])
            /\ cn_pc' = "returned"
            /\ UNCHANGED cn_executed
       ELSE LET handle == IF cn_dbhandle.kind = "str"
                          THEN Obj("conn", cn_dbhandle.id, {})   \* sqlite3.connect
                          ELSE cn_dbhandle
            IN IF handle.kind = "none"
               THEN \* dbhandle.cursor() on None
                    /\ cn_pc' = "raised"
                    /\ UNCHANGED <<cn_result, cn_executed>>
               ELSE /\ cn_executed' = AttachStatements(cn_attach)
                    /\ cn_result' = handle
                    /\ cn_pc' = "returned"
    /\ UNCHANGED <<vtvars, ewvars, cn_dbhandle, cn_attach, cn_url>>

\* ------------------------------------------------------------ specifications
InitTable ==
    /\ vt = "init"
    /\ schema = <<>>
    /\ columns = <<>>
    /\ data = <<>>
    /\ opened = {}
    /\ pos = [c \in Cursors |-> <<>>]
    /\ filtered = {}
    /\ nexts = [c \in Cursors |-> 0]
    /\ closed = {}
    /\ last = Ok("-", NoCursor, 0)

IdleWait ==
    /\ ew_pc = "idle"
    /\ retries0 = 0
    /\ retries = 0
    /\ regex_error = "locked"
    /\ attempts = 0
    /\ waits = 0
    /\ msgs = <<>>
    /\ cc = 0
    /\ exc = <<>>

IdleConnect ==
    /\ cn_pc = "idle"
    /\ cn_dbhandle = NoObj
    /\ cn_attach = [kind |-> "none", items |-> <<>>]
    /\ cn_url = <<>>
    /\ cn_result = NoObj
    /\ cn_executed = <<>>

\* the loader and the schema builder, over lists of files
InitLoad ==
    paths \in PathsOf(MaxTotalLines, MaxFiles) /\ InitTable /\ IdleWait /\ IdleConnect
NextLoad == Create
SpecLoad == InitLoad /\ [][NextLoad]_vars

\* the provider and its cursors. The cursors see the files only through data,
\* which is the same for a list of files and for their concatenation in one file.
InitScan == paths \in PathsOf(MaxScanLines, 1) /\ InitTable /\ IdleWait /\ IdleConnect
NextScan ==
    \/ Create
    \/ BestIndex
    \/ \E name \in {"Disconnect", "Destroy"} : Disconnect(name)
    \/ \E c \in Cursors : Open(c)
    \/ \E c \in Cursors, a \in FilterArgs : Filter(c, a)
    \/ \E c \in Cursors : Eof(c)
    \/ \E c \in Cursors : Rowid(c)
    \/ \E c \in Cursors, col \in ColArgs : Column(c, col)
    \/ \E c \in Cursors : Next(c)
    \/ \E c \in Cursors : Close(c)
SpecScan == InitScan /\ [][NextScan]_vars

\* one call of executewait
InitWait ==
    /\ paths = <<>>
    /\ InitTable
    /\ IdleConnect
    /\ ew_pc = "loop"
    /\ retries0 \in RetryArgs
    /\ retries = retries0
    /\ regex_error \in Patterns
    /\ attempts = 0
    /\ waits = 0
    /\ msgs = <<>>
    /\ cc = 0
    /\ exc = <<>>
NextWait ==
    \/ ExecuteOk
    \/ \E m \in Messages : ExecuteFail(m)
SpecWait == InitWait /\ [][NextWait]_vars

\* one call of connect
InitConnect ==
    /\ paths = <<>>
    /\ InitTable
    /\ IdleWait
    /\ cn_pc = "call"
    /\ cn_dbhandle \in Handles
    /\ cn_attach \in AttachArgs
    /\ cn_url \in Urls
    /\ cn_result = NoObj
    /\ cn_executed = <<>>
NextConnect == Connect
SpecConnect == InitConnect /\ [][NextConnect]_vars

\* ---------------------------------------------- what the claims speak about
\* the raw lines of all files, in reading order, without their newlines
RECURSIVE RawLines(_)
RawLines(path) == IF path = <<>> THEN <<>> ELSE Head(path) \o RawLines(Tail(path))

RECURSIVE TotalLines(_)
TotalLines(path) ==
    IF path = <<>> THEN 0 ELSE Len(Head(path)) + TotalLines(Tail(path))

\* the number of whitespace-separated names of a header line
NameCount(s) ==
    Cardinality({i \in 1..Len(s) : ~IsSpace(s[i]) /\ (i = 1 \/ IsSpace(s[i - 1]))})

\* the tab-delimited tokens of a line
TabCount(s) == Cardinality({i \in 1..Len(s) : s[i] = TAB})

TabToken(s, k) ==
    LET idx == {i \in 1..Len(s) :
                    s[i] # TAB /\ Cardinality({j \in 1..(i - 1) : s[j] = TAB}) = k - 1}
        lo == CHOOSE i \in idx : \A j \in idx : i <= j
        hi == CHOOSE i \in idx : \A j \in idx : j <= i
    IN IF idx = {} THEN <<>> ELSE SubSeq(s, lo, hi)

TabTokens(s) == [k \in 1..(TabCount(s) + 1) |-> TabToken(s, k)]

\* one file: a header of H >= 1 names, then data lines of H tab-delimited fields
\* without commas or blanks
WellFormed(path) ==
    /\ Len(path) = 1
    /\ Len(path[1]) >= 1
    /\ NameCount(path[1][1]) >= 1
    /\ \A k \in 2..Len(path[1]) :
        /\ TabCount(path[1][k]) + 1 = NameCount(path[1][1])
        /\ \A i \in 1..Len(path[1][k]) : path[1][k][i] \notin {COMMA, SP}
        /\ \A j \in 1..(TabCount(path[1][k]) + 1) : TabToken(path[1][k], j) # <<>>

\* ------------------------------------------------------------------- claims
\* C1: a well-formed single file with a header of H names and R data lines
\* gives a schema of H columns and a row store of exactly R rows, the k-th row
\* being the fields of the k-th data line; the header line is not a row.
C1_SingleFileRows ==
    (vt = "created" /\ WellFormed(paths)) =>
        /\ Len(columns) = NameCount(paths[1][1])
        /\ Len(data) = Len(paths[1]) - 1
        /\ \A k \in 1..(Len(paths[1]) - 1) : data[k] = TabTokens(paths[1][k + 1])

\* C2: for files with line counts L1..Ln the row store has (L1 + ... + Ln) - 1
\* rows: only the first line read is consumed as the header, and the rows
\* follow the order of the remaining lines.
C2_MultiFileRows ==
    vt = "created" =>
        /\ Len(data) = TotalLines(paths) - 1
        /\ \A k \in 1..(TotalLines(paths) - 1) :
            data[k] = SplitLine(Append(RawLines(paths)[k + 1], NL))

\* C3: on a table made from one well-formed file with R >= 1 data lines, a scan
\* (filter, then rowid/column/next) visits exactly the R data lines in file
\* order: on the k-th visit rowid() is the first field of the k-th data line,
\* column(j) its j-th field, and eof() is true exactly from R calls of next() on.
C3_ScanVisitsDataLines ==
    (vt = "created" /\ WellFormed(paths) /\ Len(paths[1]) >= 2 /\ last.cur \in filtered) =>
        LET R == Len(paths[1]) - 1
            k == nexts[last.cur] + 1
        IN /\ last.op = "Eof" => (last.err = "none" /\ (last.bval <=> nexts[last.cur] >= R))
           /\ (last.op = "Rowid" /\ k <= R) =>
                (last.err = "none" /\ last.sval = TabToken(paths[1][k + 1], 1))
           /\ (last.op = "Column" /\ k <= R /\ last.arg \in 0..TabCount(paths[1][k + 1])) =>
                (last.err = "none" /\ last.sval = TabToken(paths[1][k + 1], last.arg + 1))

\* C4: for a cursor over a row store of N rows, eof() after filter() and k calls
\* of next() is true iff k >= N: true right after filter() iff N = 0, false for
\* every k < N, true after exactly N calls.
C4_EofAfterNexts ==
    (last.op = "Eof" /\ last.cur \in filtered) =>
        /\ last.err = "none"
        /\ last.bval <=> (nexts[last.cur] >= Len(data))

C4_Witness ==
    /\ last.op = "Eof"
    /\ last.cur \in filtered
    /\ Len(data) = 2
    /\ nexts[last.cur] = Len(data)
    /\ last.bval

\* what a cursor that is alone on the table returns after fl (Filter called) and
\* k calls of Next since
SoloRet(op, c, arg, fl, k) ==
    IF ~fl THEN Raise(op, c, arg, "AttributeError")
    ELSE IF op = "Eof" THEN Ret(op, c, arg, "none", k >= Len(data), <<>>)
    ELSE IF k >= Len(data) THEN Raise(op, c, arg, "IndexError")
    ELSE IF op = "Rowid" THEN Ret(op, c, arg, "none", FALSE, data[k + 1][1])
    ELSE IF arg >= Len(data[k + 1]) \/ arg < -Len(data[k + 1])
         THEN Raise(op, c, arg, "IndexError")
    ELSE Ret(op, c, arg, "none", FALSE,
             data[k + 1][IF arg >= 0 THEN arg + 1 ELSE Len(data[k + 1]) + arg + 1])

\* C5: an operation on one cursor never changes the position of another cursor,
\* and what a cursor observes is what it would observe alone on the table,
\* whatever the other cursor did in between.
C5_CursorsIndependent ==
    [][ /\ \A d \in Cursors \ {last'.cur} : pos'[d] = pos[d]
        /\ last'.op \in {"Eof", "Rowid", "Column"} =>
              last' = SoloRet(last'.op, last'.cur, last'.arg,
                              last'.cur \in filtered', nexts'[last'.cur]) ]_vars

C5_Witness ==
    /\ opened = Cursors
    /\ pos["c1"] = <<2>>
    /\ pos["c2"] = <<0>>
    /\ last.op = "Rowid"
    /\ last.cur = "c2"
    /\ last.err = "none"

\* the row of the cursor position p comes from line p + 1 of the lines read
RowLine(p) == RawLines(paths)[p + 1]

\* C6: data lines are split on the tab character only: column(i) returns the
\* i-th tab-delimited token of the line unmodified, so a token that holds a
\* comma stays one field.
C6_ColumnIsTabToken ==
    (last.op = "Column" /\ last.err = "none" /\ last.arg >= 0) =>
        /\ last.arg <= TabCount(RowLine(pos[last.cur][1]))
        /\ last.sval = TabToken(RowLine(pos[last.cur][1]), last.arg + 1)

\* C7: a cursor returned by open() has a defined position: before any filter()
\* call eof() and next() complete without an error.
C7_FreshCursorDefined ==
    (last.op \in {"Eof", "Next"} /\ last.cur \notin filtered) => last.err = "none"

\* C8: after close() no filter(), eof(), rowid(), column() or next() call on
\* the cursor is accepted: none returns a value or moves the position.
C8_ClosedIsTerminal ==
    (last.op \in {"Filter", "Eof", "Rowid", "Column", "Next"} /\ last.cur \in closed) =>
        last.err # "none"

\* C9: once create has returned, no operation on the provider or on its cursors
\* changes the schema, the columns, the number or order of the rows or a field.
C9_ProviderReadOnly ==
    [][ vt = "created" =>
            /\ vt' = "created"
            /\ schema' = schema
            /\ columns' = columns
            /\ data' = data ]_vars

C9_Witness ==
    /\ vt = "created"
    /\ last.op = "Destroy"
    /\ \E c \in closed : nexts[c] >= 2
    /\ Len(data) = 2
    /\ data = GetFileData(paths)
    /\ schema = SchemaString(columns)

\* every failed attempt so far raised an error the loop retries on
AllRetryable == \A i \in 1..Len(msgs) : Search(LockedPattern, msgs[i])

\* C10: when every attempt fails with a retryable error, retries = N >= 0 makes
\* executewait execute the statement exactly N + 1 times and then raise the last
\* error (one attempt for N = 0); with retries < 0 it never gives up.
C10_RetryCount ==
    (ew_pc # "idle" /\ AllRetryable /\ attempts = Len(msgs)) =>
        /\ retries0 >= 0 =>
            /\ attempts <= retries0 + 1
            /\ ew_pc = "raised" <=> attempts = retries0 + 1
            /\ ew_pc = "raised" => exc = <<msgs[Len(msgs)]>>
        /\ retries0 < 0 => ew_pc = "loop"

C10_Witness ==
    /\ ew_pc = "raised"
    /\ retries0 = 2
    /\ attempts = 3
    /\ AllRetryable

\* C11: the retry decision is made with the regex_error argument: a failed
\* attempt whose message matches regex_error is ignored and retried (retries
\* permitting), one whose message does not match makes executewait raise at once.
C11_RegexErrorDecides ==
    (ew_pc \in {"loop", "raised"} /\ msgs # <<>>) =>
        /\ (ew_pc = "loop") => Search(regex_error, msgs[Len(msgs)])
        /\ (ew_pc = "raised" /\ retries # 0) => ~Search(regex_error, msgs[Len(msgs)])

\* C12: when the header has zero tokens (the first line read is blank, or the
\* files hold no line at all) create completes and returns a schema of zero
\* columns.
C12_EmptyHeaderSchema ==
    (vt # "init" /\ (TotalLines(paths) = 0 \/ NameCount(RawLines(paths)[1]) = 0)) =>
        /\ vt = "created"
        /\ columns = <<>>
        /\ schema = SchemaPrefix \o <<")">>

\* C13: connect called with an existing database connection as dbhandle
\* returns that same connection, for every combination of attach and url.
C13_ConnectReturnsHandle ==
    (cn_pc \in {"returned", "raised"} /\ cn_dbhandle.kind = "conn") =>
        /\ cn_pc = "returned"
        /\ cn_result = cn_dbhandle

\* C14: on an exhausted cursor (position >= row count) rowid() and column(i)
\* fail with an error instead of returning a value, and the failed call leaves
\* the position and the row store as they were.
C14_ExhaustedAccessFails ==
    (last.op \in {"Rowid", "Column"} /\ last.cur \in filtered
        /\ nexts[last.cur] >= Len(data)) =>
        /\ last.err = "IndexError"
        /\ pos[last.cur] = <<nexts[last.cur]>>
        /\ data = GetFileData(paths)

C14_Witness ==
    /\ last.op = "Column"
    /\ last.arg = 0
    /\ last.cur \in filtered
    /\ Len(data) = 2
    /\ nexts[last.cur] = 2
    /\ last.err = "IndexError"

\* C15: the loader neither pads nor truncates: every stored row has as many
\* fields as its line has tab-delimited tokens, loading never fails on a
\* mismatch with the header, and column(i) on a row is defined exactly for
\* 0 <= i < the row's own field count.
C15_RowsKeepOwnWidth ==
    /\ (vt # "init" /\ TotalLines(paths) > 0) => vt = "created"
    /\ vt = "created" =>
        \A k \in 1..Len(data) : Len(data[k]) = TabCount(RawLines(paths)[k]) + 1
    /\ (last.op = "Column" /\ last.cur \in filtered /\ nexts[last.cur] < Len(data)) =>
        (last.err = "none" <=>
            (0 <= last.arg /\ last.arg < Len(data[nexts[last.cur] + 1])))

\* C16: filter() can be called in every state of an open cursor, with whatever
\* arguments, and sets the position to 0; a scan is repeatable: what rowid(),
\* column() and eof() return after a filter() and k calls of next() depends
\* only on k, so it is the same after a later filter() as after the first.
C16_FilterResets ==
    /\ \A c \in opened, a \in FilterArgs : ENABLED Filter(c, a)
    /\ last.op = "Filter" => (last.err = "none" /\ pos[last.cur] = <<0>>)
    /\ (last.op \in {"Eof", "Rowid", "Column"} /\ last.cur \in filtered) =>
          last = SoloRet(last.op, last.cur, last.arg, TRUE, nexts[last.cur])

C16_Witness ==
    /\ last.op = "Filter"
    /\ last.arg = 1
    /\ last.cur \notin closed
    /\ pos[last.cur] = <<0>>
    /\ Len(data) = 2
    /\ \E d \in Cursors \ {last.cur} : pos[d] = <<2>>

\* C17: exhausted is absorbing under next(): once the position is at or past
\* the row count it stays there, so eof() stays true, until filter() is called
\* on that cursor; between two filter() calls the position never decreases.
C17_ExhaustedAbsorbing ==
    [][ \A c \in Cursors :
          (pos[c] # <<>> /\ ~(last'.op = "Filter" /\ last'.cur = c)) =>
              /\ pos'[c] # <<>>
              /\ pos'[c][1] >= pos[c][1]
              /\ EofValue(pos[c][1], data) => EofValue(pos'[c][1], data') ]_vars

C17_Witness ==
    /\ last.op = "Eof"
    /\ last.bval
    /\ Len(data) = 2
    /\ nexts[last.cur] = 3
    /\ pos[last.cur] = <<3>>

\* C18: the position of a cursor changes only through filter(), which sets it
\* to 0, and next(), which adds exactly 1; eof(), rowid(), column() and close()
\* leave it unchanged, so repeating them between two next() calls returns the
\* same values.
C18_PositionFrame ==
    [][ \A c \in Cursors :
          pos'[c] # pos[c] =>
              /\ last'.cur = c
              /\ \/ last'.op = "Filter" /\ pos'[c] = <<0>>
                 \/ last'.op = "Next" /\ pos[c] # <<>> /\ pos'[c] = <<pos[c][1] + 1>> ]_vars

C18_Witness ==
    /\ last.op = "Close"
    /\ pos[last.cur] = <<1>>
    /\ nexts[last.cur] = 1
    /\ Len(data) = 2

\* C19: when the statement fails k times with a retryable error and then
\* succeeds, with retries < 0 or retries >= k, executewait returns the cursor
\* of attempt k + 1: it makes exactly k + 1 attempts, sleeps once after each
\* failed attempt, and makes no attempt and no sleep after the successful one.
C19_ReturnsAfterRetries ==
    /\ (ew_pc # "idle" /\ AllRetryable /\ attempts = Len(msgs)
          /\ (retries0 < 0 \/ Len(msgs) <= retries0)) =>
            (ew_pc = "loop" /\ waits = Len(msgs))
    /\ (cc # 0) <=> (ew_pc = "returned")
    /\ ew_pc = "returned" =>
        /\ AllRetryable
        /\ (retries0 < 0 \/ Len(msgs) <= retries0)
        /\ attempts = Len(msgs) + 1
        /\ cc = Len(msgs) + 1
        /\ waits = Len(msgs)

C19_Witness ==
    /\ ew_pc = "returned"
    /\ retries0 = 2
    /\ Len(msgs) = 2
    /\ cc = 3
    /\ waits = 2

====
